---- MODULE Spec2Model ----
(***************************************************************************)
(* Model of the flight-offer pipeline of flight_search_app.py:             *)
(* get_amadeus_access_token, extract_iata, parse_duration_to_hours,        *)
(* search_flights_amadeus, build_prompt, call_llm and the search branch    *)
(* of main.                                                                *)
(*                                                                         *)
(* Python str values are sequences of one-character strings.  Python       *)
(* floats that come out of round(x, 2) are integers counting hundredths    *)
(* (10.5 is 1050), wrapped in a record so that None can stand beside them. *)
(***************************************************************************)
EXTENDS Integers, Sequences, FiniteSets, TLC

VARIABLES
    client_id, client_secret,
    pc, origin_input, destination_input, start_date, end_date, max_stops,
    access_token, params, tokenResp, searchResp, raw, flights, prompt,
    llm_response, exc, msg, outcome,
    tokenCalls, searchCalls, llmCalls, steps,
    fpc, duration, hours_out, code_or_city, iata_out

envVars == <<client_id, client_secret>>
mainVars == <<pc, origin_input, destination_input, start_date, end_date,
              max_stops, access_token, params, tokenResp, searchResp, raw,
              flights, prompt, llm_response, exc, msg, outcome,
              tokenCalls, searchCalls, llmCalls, steps>>
funVars == <<fpc, duration, hours_out, code_or_city, iata_out>>
vars == <<envVars, mainVars, funVars>>

\* None where a str is expected: a sequence that is no Python string
NoneStr == <<"None">>
\* float | None
NoFloat == [absent |-> TRUE]
Float(hundredths) == [hundredths |-> hundredths]

\* ------------------------------------------------------------------ bounds
MaxLen == 6          \* longest location text given to extract_iata
MaxJunk == 3         \* longest arbitrary text given to parse_duration_to_hours
MaxH == 12           \* largest hour component of a well-formed token
MaxM == 61           \* largest minute component of a well-formed token
MaxOffers == 3       \* most offers in one provider response
MaxSegs == 3         \* most segments in one itinerary

\* --------------------------------------------------------- python strings
Min(a, b) == IF a < b THEN a ELSE b
Max(a, b) == IF a > b THEN a ELSE b

BoundedSeq(S, n) == UNION {[1..k -> S] : k \in 0..n}

Whitespace == {" "}

\* str.upper on the characters the model uses
UpperChar(ch) ==
    CASE ch = "a" -> "A"
      [] ch = "b" -> "B"
      [] ch = "c" -> "C"
      [] ch = "d" -> "D"
      [] ch = "e" -> "E"
      [] ch = "i" -> "I"
      [] ch = "n" -> "N"
      [] ch = "s" -> "S"
      [] ch = "y" -> "Y"
      [] OTHER -> ch

Upper(s) == [i \in 1..Len(s) |-> UpperChar(s[i])]

\* s[a:b] for 0-based a, b >= 0
Slice(s, a, b) ==
    LET lo == Min(a, Len(s))
        hi == Min(b, Len(s))
    IN  IF lo >= hi THEN <<>> ELSE [i \in 1..(hi - lo) |-> s[lo + i]]

\* str.strip(): drops leading and trailing whitespace
Strip(s) ==
    LET ink == {i \in 1..Len(s) : s[i] \notin Whitespace}
    IN  IF ink = {} THEN <<>>
        ELSE LET first == CHOOSE i \in ink : \A j \in ink : i <= j
                 last == CHOOSE i \in ink : \A j \in ink : i >= j
             IN  Slice(s, first - 1, last)

\* ch in s
Contains(s, ch) == \E i \in 1..Len(s) : s[i] = ch

\* s.find(ch): 0-based index of the first occurrence, -1 when there is none
Find(s, ch) ==
    IF ~Contains(s, ch) THEN -1
    ELSE (CHOOSE i \in 1..Len(s) : s[i] = ch /\ \A j \in 1..(i - 1) : s[j] # ch) - 1

\* s.rfind(ch): 0-based index of the last occurrence, -1 when there is none
RFind(s, ch) ==
    IF ~Contains(s, ch) THEN -1
    ELSE (CHOOSE i \in 1..Len(s) : s[i] = ch /\ \A j \in (i + 1)..Len(s) : s[j] # ch) - 1

\* -------------------------------------------------------------- extract_iata
extract_iata_first_paren(code_or_city_) ==
    LET text == Strip(code_or_city_)
        start == Find(text, "(") + 1
        end == RFind(text, ")")
        iata == Strip(Slice(text, start, end))
    IN  IF Contains(text, "(") /\ Contains(text, ")") /\ Len(iata) = 3
        THEN Upper(iata)
        ELSE Slice(Upper(Strip(text)), 0, 3)

extract_iata(code_or_city_) ==
    LET text == Strip(code_or_city_)
        start == RFind(text, "(") + 1
        end == RFind(text, ")")
        iata == Strip(Slice(text, start, end))
    IN  IF Contains(text, "(") /\ Contains(text, ")") /\ Len(iata) = 3
        THEN Upper(iata)
        ELSE Slice(Upper(Strip(text)), 0, 3)

\* ------------------------------------------------- parse_duration_to_hours
Digits == {"0", "1", "2", "3", "4", "5", "6", "7", "8", "9"}

DigitVal(ch) ==
    CASE ch = "0" -> 0 [] ch = "1" -> 1 [] ch = "2" -> 2 [] ch = "3" -> 3
      [] ch = "4" -> 4 [] ch = "5" -> 5 [] ch = "6" -> 6 [] ch = "7" -> 7
      [] ch = "8" -> 8 [] ch = "9" -> 9

\* int(num) for a non-empty run of decimal digits
RECURSIVE IntOf(_)
IntOf(num) ==
    IF num = <<>> THEN 0
    ELSE 10 * IntOf(SubSeq(num, 1, Len(num) - 1)) + DigitVal(num[Len(num)])

\* round(hours + minutes / 60.0, 2), in hundredths.  (6000*hours +
\* 100*minutes)/60 is never half-way between two integers, so the
\* direction in which round() breaks ties does not matter.
RoundHours_div100(hours, minutes) ==
    (2 * (100 * hours + minutes) + 1) \div 2

RoundHours(hours, minutes) ==
    (2 * (6000 * hours + 100 * minutes) + 60) \div 120

\* the for loop of parse_duration_to_hours from character i on; st is
\* [num, hours, minutes]
RECURSIVE ScanDuration(_, _, _)
ScanDuration(current, i, st) ==
    IF i > Len(current) THEN st
    ELSE LET ch == current[i]
         IN  IF ch \in Digits
             THEN ScanDuration(current, i + 1,
                               [st EXCEPT !.num = Append(st.num, ch)])
             ELSE IF ch = "H" /\ st.num # <<>>
             THEN ScanDuration(current, i + 1,
                               [st EXCEPT !.hours = IntOf(st.num), !.num = <<>>])
             ELSE IF ch = "M" /\ st.num # <<>>
             THEN ScanDuration(current, i + 1,
                               [st EXCEPT !.minutes = IntOf(st.num), !.num = <<>>])
             ELSE ScanDuration(current, i + 1, [st EXCEPT !.num = <<>>])

StartsWithPT(s) == Len(s) >= 2 /\ s[1] = "P" /\ s[2] = "T"

parse_duration_to_hours(duration_) ==
    IF duration_ = NoneStr \/ duration_ = <<>> \/ ~StartsWithPT(duration_)
    THEN NoFloat
    ELSE LET st == ScanDuration(Slice(duration_, 2, Len(duration_)), 1,
                                [num |-> <<>>, hours |-> 0, minutes |-> 0])
         IN  Float(RoundHours(st.hours, st.minutes))

\* ----------------------------------------------------------- environment
\* os.getenv: None when unset, otherwise the (possibly empty) value
Credentials == {NoneStr, <<>>, <<"k">>}

\* Python truthiness of a str | None
Falsy(s) == s = NoneStr \/ s = <<>>

CredentialsMissing_both(id, secret) == Falsy(id) /\ Falsy(secret)

\* the test `not AMADEUS_CLIENT_ID or not AMADEUS_CLIENT_SECRET`
CredentialsMissing(id, secret) == Falsy(id) \/ Falsy(secret)

\* ------------------------------------------------------ provider records
Airport(k) ==
    CASE k = 0 -> "SYD" [] k = 1 -> "SIN" [] k = 2 -> "HKG" [] k = 3 -> "NRT"
      [] OTHER -> "ICN"

Carrier(k) == IF k = 1 THEN "QF" ELSE "SQ"

Time(k) ==
    CASE k = 0 -> "T0" [] k = 1 -> "T1" [] k = 2 -> "T2" [] k = 3 -> "T3"
      [] OTHER -> "T4"

\* the k-th segment of a route SYD -> SIN -> HKG -> ...
Segment(k) ==
    [carrierCode |-> Carrier(k),
     departure |-> [iataCode |-> Airport(k - 1), at |-> Time(k - 1)],
     arrival |-> [iataCode |-> Airport(k), at |-> Time(k)]]

DurationOf(n) ==
    CASE n = 0 -> <<>>
      [] n = 1 -> <<"P", "T", "3", "H">>
      [] n = 2 -> <<"b", "o", "g", "u", "s">>
      [] n = 3 -> <<"P", "T", "1", "2", "H", "3", "0", "M">>
      [] OTHER -> <<"P", "T", "4", "5", "M">>

Itinerary(n) ==
    [segments |-> [k \in 1..n |-> Segment(k)], duration |-> DurationOf(n)]

ItineraryLists ==
    {<<>>}
    \cup {<<Itinerary(n)>> : n \in 0..MaxSegs}
    \cup {<<Itinerary(1), Itinerary(MaxSegs)>>, <<Itinerary(MaxSegs), Itinerary(1)>>}

\* price block and validating airlines: both present, or both missing
PricedMeta == [validatingAirlineCodes |-> <<"KE">>,
               price |-> [grandTotal |-> 51234, currency |-> "USD"]]
BareMeta == [validatingAirlineCodes |-> <<>>, price |-> [empty |-> TRUE]]

RawOffers ==
    {[itineraries |-> its,
      validatingAirlineCodes |-> m.validatingAirlineCodes,
      price |-> m.price] : its \in ItineraryLists, m \in {PricedMeta, BareMeta}}

\* ------------------------------------------------- search_flights_amadeus
stops_segments(segments) == Len(segments)

\* stops = max(len(segments) - 1, 0)
stops_of(segments) == Max(Len(segments) - 1, 0)

filtered_out_loose(max_stops_, stops) ==
    (max_stops_ = 0 /\ stops > 1) \/ (max_stops_ = 1 /\ stops > 1)

\* the two `continue` branches of the stop filter
filtered_out(max_stops_, stops) ==
    (max_stops_ = 0 /\ stops > 0) \/ (max_stops_ = 1 /\ stops > 1)

\* dict.get(key, default) on the price block
GrandTotal(price_info) ==
    IF "grandTotal" \in DOMAIN price_info THEN price_info.grandTotal ELSE 0
Currency(price_info) ==
    IF "currency" \in DOMAIN price_info THEN price_info.currency ELSE "AUD"

\* the dict appended for an offer whose first itinerary has segments
normalized_record(offer) ==
    LET itinerary == offer.itineraries[1]
        segments == itinerary.segments
        first_seg == segments[1]
        last_seg == segments[Len(segments)]
    IN  [airline |-> IF offer.validatingAirlineCodes # <<>>
                     THEN offer.validatingAirlineCodes[1]
                     ELSE first_seg.carrierCode,
         origin |-> first_seg.departure.iataCode,
         destination |-> last_seg.arrival.iataCode,
         departure_time |-> first_seg.departure.at,
         arrival_time |-> last_seg.arrival.at,
         stops |-> stops_of(segments),
         price |-> GrandTotal(offer.price),
         currency |-> Currency(offer.price),
         duration_hours |-> parse_duration_to_hours(itinerary.duration)]

\* one pass of the loop body: the list after looking at offer
loop_body_prepend(normalized, offer, max_stops_) ==
    IF offer.itineraries = <<>> THEN normalized
    ELSE IF offer.itineraries[1].segments = <<>> THEN normalized
    ELSE IF filtered_out(max_stops_, stops_of(offer.itineraries[1].segments))
    THEN normalized
    ELSE <<normalized_record(offer)>> \o normalized

loop_body(normalized, offer, max_stops_) ==
    IF offer.itineraries = <<>> THEN normalized
    ELSE IF offer.itineraries[1].segments = <<>> THEN normalized
    ELSE IF filtered_out(max_stops_, stops_of(offer.itineraries[1].segments))
    THEN normalized
    ELSE Append(normalized, normalized_record(offer))

\* for offer in offers: ... from offer i on
RECURSIVE normalize_from(_, _, _, _)
normalize_from(offers, i, normalized, max_stops_) ==
    IF i > Len(offers) THEN normalized
    ELSE normalize_from(offers, i + 1,
                        loop_body(normalized, offers[i], max_stops_), max_stops_)

normalize(offers, max_stops_) == normalize_from(offers, 1, <<>>, max_stops_)

\* the query parameters of the offer-search request
NoParams == [none |-> TRUE]

search_params(origin_city, destination_city, departure_date, return_date, max_stops_) ==
    LET o == extract_iata(origin_city)
        d == extract_iata(destination_city)
        ret == return_date # "" /\ return_date # departure_date
    IN  IF ret /\ max_stops_ = 0
        THEN [originLocationCode |-> o, destinationLocationCode |-> d,
              departureDate |-> departure_date, adults |-> 1,
              currencyCode |-> "AUD", max |-> 20,
              returnDate |-> return_date, nonStop |-> "true"]
        ELSE IF ret
        THEN [originLocationCode |-> o, destinationLocationCode |-> d,
              departureDate |-> departure_date, adults |-> 1,
              currencyCode |-> "AUD", max |-> 20,
              returnDate |-> return_date]
        ELSE IF max_stops_ = 0
        THEN [originLocationCode |-> o, destinationLocationCode |-> d,
              departureDate |-> departure_date, adults |-> 1,
              currencyCode |-> "AUD", max |-> 20,
              nonStop |-> "true"]
        ELSE [originLocationCode |-> o, destinationLocationCode |-> d,
              departureDate |-> departure_date, adults |-> 1,
              currencyCode |-> "AUD", max |-> 20]

\* ----------------------------------------------------------- build_prompt
NoPrompt == [none |-> TRUE]

build_prompt(origin, destination, start_date_, end_date_, max_stops_, flights_) ==
    [origin |-> origin, destination |-> destination,
     start_date |-> start_date_, end_date |-> end_date_,
     max_stops |-> max_stops_, flights_json |-> flights_]

\* ------------------------------------------------------ network outcomes
\* what requests.post(token_url, ...) can come back with
TokenResponses ==
    {[kind |-> "transport_error"], [kind |-> "http_error"],
     [kind |-> "undecodable"], [kind |-> "no_access_token"],
     [kind |-> "ok", access_token |-> <<"t">>]}

\* what requests.get(url, ...) can come back with
SearchResponses ==
    {[kind |-> "transport_error"], [kind |-> "http_error"],
     [kind |-> "undecodable"], [kind |-> "no_data"]}
    \cup {[kind |-> "ok", data |-> d] : d \in BoundedSeq(RawOffers, MaxOffers)}

\* what requests.post(OLLAMA_URL, ...) can come back with
LlmResponses ==
    {[kind |-> "transport_error"], [kind |-> "http_error"],
     [kind |-> "undecodable"], [kind |-> "ok", response |-> "markdown"]}

NoResponse == [kind |-> "none"]

\* raise_for_status() and resp.json() raise subclasses of RequestException
RaisesRequestException(resp) ==
    resp.kind \in {"transport_error", "http_error", "undecodable"}


token_returned_unchecked(resp) == resp.kind \in {"ok", "no_access_token"}

\* get_amadeus_access_token returns: 2xx, decodable, access_token truthy
token_returned(resp) == resp.kind = "ok"

\* payload.get("access_token")
AccessTokenOf(resp) ==
    IF "access_token" \in DOMAIN resp THEN resp.access_token ELSE NoneStr

SearchRaisesInsideTry_empty(resp) ==
    resp.kind \in {"transport_error", "http_error"}
    \/ (resp.kind = "ok" /\ resp.data = <<>>)

\* the part of search_flights_amadeus inside try: only the request and
\* raise_for_status(); resp.json() comes after the except clause
SearchRaisesInsideTry(resp) == resp.kind \in {"transport_error", "http_error"}

\* data.get("data", [])
DataOf(resp) == IF "data" \in DOMAIN resp THEN resp.data ELSE <<>>

\* ------------------------------------------------------------ user inputs
OriginInputs == {<<>>, <<"S", "y", "d", "n", "e", "y", " ", "(", "S", "Y", "D", ")">>}
DestinationInputs == {<<>>, <<"i", "c", "n">>}
\* (start_date_str, end_date_str): a single date or a range
DateRanges == {<<"2025-12-03", "2025-12-03">>, <<"2025-12-03", "2025-12-10">>}
StopChoices == {0, 1}

\* ---------------------------------------------------------- initial state
FunIdle ==
    /\ fpc = "off"
    /\ duration = <<>>
    /\ hours_out = NoFloat
    /\ code_or_city = <<>>
    /\ iata_out = NoneStr

Fresh ==
    /\ origin_input = <<>>
    /\ destination_input = <<>>
    /\ start_date = ""
    /\ end_date = ""
    /\ max_stops = 0
    /\ access_token = NoneStr
    /\ params = NoParams
    /\ tokenResp = NoResponse
    /\ searchResp = NoResponse
    /\ raw = <<>>
    /\ flights = <<>>
    /\ prompt = NoPrompt
    /\ llm_response = ""
    /\ exc = "none"
    /\ msg = ""
    /\ outcome = "none"
    /\ tokenCalls = 0
    /\ searchCalls = 0
    /\ llmCalls = 0
    /\ steps = <<>>

Init ==
    /\ client_id \in Credentials
    /\ client_secret \in Credentials
    /\ pc = "idle"
    /\ Fresh
    /\ FunIdle

\* ---------------------------------------------------------------- actions
\* main, lines 310-313: the button is pressed; a rerun starts from scratch
Press ==
    /\ pc \in {"idle", "done"}
    /\ \E o \in OriginInputs, d \in DestinationInputs, dr \in DateRanges, ms \in StopChoices :
        /\ origin_input' = o
        /\ destination_input' = d
        /\ start_date' = dr[1]
        /\ end_date' = dr[2]
        /\ max_stops' = ms
        /\ IF o = <<>> \/ d = <<>>
           THEN outcome' = "input_error" /\ pc' = "done"
           ELSE outcome' = "pending" /\ pc' = "token"
    /\ access_token' = NoneStr
    /\ params' = NoParams
    /\ tokenResp' = NoResponse
    /\ searchResp' = NoResponse
    /\ raw' = <<>>
    /\ flights' = <<>>
    /\ prompt' = NoPrompt
    /\ llm_response' = ""
    /\ exc' = "none"
    /\ msg' = ""
    /\ tokenCalls' = 0
    /\ searchCalls' = 0
    /\ llmCalls' = 0
    /\ steps' = <<>>
    /\ UNCHANGED <<envVars, funVars>>

\* main's `except AmadeusError`: st.error and return
Fail(type, message) ==
    /\ exc' = type
    /\ msg' = message
    /\ outcome' = IF type = "AmadeusError" THEN "error" ELSE "uncaught"
    /\ pc' = "done"

\* get_amadeus_access_token as called at line 136
GetToken ==
    /\ pc = "token"
    /\ steps' = Append(steps, "token")
    /\ IF CredentialsMissing(client_id, client_secret)
       THEN /\ Fail("AmadeusError", "credentials not set")
            /\ UNCHANGED <<tokenResp, tokenCalls, access_token>>
       ELSE \E resp \in TokenResponses :
            /\ tokenResp' = resp
            /\ tokenCalls' = tokenCalls + 1
            /\ IF RaisesRequestException(resp)
               THEN /\ Fail("AmadeusError", "Error getting Amadeus token")
                    /\ UNCHANGED access_token
               ELSE IF ~token_returned(resp)
               THEN /\ Fail("AmadeusError", "No access_token in response")
                    /\ UNCHANGED access_token
               ELSE /\ access_token' = AccessTokenOf(resp)
                    /\ pc' = "search"
                    /\ UNCHANGED <<exc, msg, outcome>>
    /\ UNCHANGED <<origin_input, destination_input, start_date, end_date,
                   max_stops, params, searchResp, raw, flights, prompt,
                   llm_response, searchCalls, llmCalls>>
    /\ UNCHANGED <<envVars, funVars>>

\* search_flights_amadeus, lines 138-171: build the query, one GET, decode
SearchOffers ==
    /\ pc = "search"
    /\ steps' = Append(steps, "search")
    /\ params' = search_params(origin_input, destination_input, start_date,
                               end_date, max_stops)
    /\ \E resp \in SearchResponses :
        /\ searchResp' = resp
        /\ searchCalls' = searchCalls + 1
        /\ IF SearchRaisesInsideTry(resp)
           THEN /\ Fail("AmadeusError", "Error calling Amadeus Flight Offers Search")
                /\ UNCHANGED raw
           ELSE IF resp.kind = "undecodable"
           THEN /\ Fail("JSONDecodeError", "resp.json()")
                /\ UNCHANGED raw
           ELSE /\ raw' = DataOf(resp)
                /\ pc' = "normalize"
                /\ UNCHANGED <<exc, msg, outcome>>
    /\ UNCHANGED <<origin_input, destination_input, start_date, end_date,
                   max_stops, access_token, tokenResp, flights, prompt,
                   llm_response, tokenCalls, llmCalls>>
    /\ UNCHANGED <<envVars, funVars>>

\* search_flights_amadeus, lines 172-227: the normalisation loop and return
Normalize ==
    /\ pc = "normalize"
    /\ steps' = Append(steps, "normalize")
    /\ flights' = normalize(raw, max_stops)
    /\ pc' = "returned"
    /\ UNCHANGED <<origin_input, destination_input, start_date, end_date,
                   max_stops, access_token, params, tokenResp, searchResp, raw,
                   prompt, llm_response, exc, msg, outcome, tokenCalls,
                   searchCalls, llmCalls>>
    /\ UNCHANGED <<envVars, funVars>>

no_flights_never(flights_) == FALSE

\* main, line 328: `if not flights`
no_flights(flights_) == flights_ = <<>>

\* main, lines 328-330: st.warning and return
NoResults ==
    /\ pc = "returned"
    /\ no_flights(flights)
    /\ outcome' = "no_results"
    /\ pc' = "done"
    /\ UNCHANGED <<origin_input, destination_input, start_date, end_date,
                   max_stops, access_token, params, tokenResp, searchResp, raw,
                   flights, prompt, llm_response, exc, msg, tokenCalls,
                   searchCalls, llmCalls, steps>>
    /\ UNCHANGED <<envVars, funVars>>

\* main, lines 332-345: show the offers and build the prompt
BuildPrompt ==
    /\ pc = "returned"
    /\ ~no_flights(flights)
    /\ steps' = Append(steps, "prompt")
    /\ prompt' = build_prompt(origin_input, destination_input, start_date,
                              end_date, max_stops, flights)
    /\ pc' = "llm"
    /\ UNCHANGED <<origin_input, destination_input, start_date, end_date,
                   max_stops, access_token, params, tokenResp, searchResp, raw,
                   flights, llm_response, exc, msg, outcome, tokenCalls,
                   searchCalls, llmCalls>>
    /\ UNCHANGED <<envVars, funVars>>

\* main, lines 347-353, with call_llm: one POST, failures become a string
CallLlm ==
    /\ pc = "llm"
    /\ steps' = Append(steps, "llm")
    /\ \E resp \in LlmResponses :
        /\ llmCalls' = llmCalls + 1
        /\ IF RaisesRequestException(resp)
           THEN llm_response' = "ERROR calling Ollama" /\ outcome' = "llm_error"
           ELSE llm_response' = resp.response /\ outcome' = "recommendation"
    /\ pc' = "done"
    /\ UNCHANGED <<origin_input, destination_input, start_date, end_date,
                   max_stops, access_token, params, tokenResp, searchResp, raw,
                   flights, prompt, exc, msg, tokenCalls, searchCalls>>
    /\ UNCHANGED <<envVars, funVars>>

Next ==
    \/ Press
    \/ GetToken
    \/ SearchOffers
    \/ Normalize
    \/ NoResults
    \/ BuildPrompt
    \/ CallLlm

Spec == Init /\ [][Next]_vars

TypeOK ==
    /\ pc \in {"idle", "token", "search", "normalize", "returned", "llm", "done"}
    /\ exc \in {"none", "AmadeusError", "JSONDecodeError"}
    /\ outcome \in {"none", "pending", "input_error", "error", "uncaught",
                    "no_results", "recommendation", "llm_error"}
    /\ tokenCalls \in 0..1 /\ searchCalls \in 0..1 /\ llmCalls \in 0..1

\* ------------------------------------------- extract_iata on its own
IataAlphabet == {"a", "B", "(", ")", " "}

InitIata ==
    /\ client_id = NoneStr
    /\ client_secret = NoneStr
    /\ pc = "idle"
    /\ Fresh
    /\ fpc = "iata"
    /\ code_or_city \in BoundedSeq(IataAlphabet, MaxLen)
    /\ iata_out = NoneStr
    /\ duration = <<>>
    /\ hours_out = NoFloat

\* one call extract_iata(code_or_city)
CallExtractIata ==
    /\ fpc = "iata"
    /\ iata_out' = extract_iata(code_or_city)
    /\ fpc' = "done"
    /\ UNCHANGED <<envVars, mainVars, duration, hours_out, code_or_city>>

NextIata == CallExtractIata

SpecIata == InitIata /\ [][NextIata]_vars

\* ------------------------------- parse_duration_to_hours on its own
JunkAlphabet == {"P", "T", "H", "M", "S", "1", "5"}

DigitChar(d) ==
    CASE d = 0 -> "0" [] d = 1 -> "1" [] d = 2 -> "2" [] d = 3 -> "3"
      [] d = 4 -> "4" [] d = 5 -> "5" [] d = 6 -> "6" [] d = 7 -> "7"
      [] d = 8 -> "8" [] d = 9 -> "9"

\* the decimal digits of n >= 0
RECURSIVE ToDigits(_)
ToDigits(n) ==
    IF n < 10 THEN <<DigitChar(n)>>
    ELSE Append(ToDigits(n \div 10), DigitChar(n % 10))

\* the token PT{h}H{m}M, each component optional
Token(h, m, withH, withM) ==
    <<"P", "T">>
    \o (IF withH THEN Append(ToDigits(h), "H") ELSE <<>>)
    \o (IF withM THEN Append(ToDigits(m), "M") ELSE <<>>)

WellFormedTokens ==
    {Token(h, m, wh, wm) : h \in 0..MaxH, m \in 0..MaxM,
                           wh \in BOOLEAN, wm \in BOOLEAN}

DurationInputs ==
    {NoneStr, <<"b", "o", "g", "u", "s">>}
    \cup BoundedSeq(JunkAlphabet, MaxJunk)
    \cup WellFormedTokens

InitDuration ==
    /\ client_id = NoneStr
    /\ client_secret = NoneStr
    /\ pc = "idle"
    /\ Fresh
    /\ fpc = "duration"
    /\ duration \in DurationInputs
    /\ hours_out = NoFloat
    /\ code_or_city = <<>>
    /\ iata_out = NoneStr

\* one call parse_duration_to_hours(duration)
CallParseDuration ==
    /\ fpc = "duration"
    /\ hours_out' = parse_duration_to_hours(duration)
    /\ fpc' = "done"
    /\ UNCHANGED <<envVars, mainVars, duration, code_or_city, iata_out>>

NextDuration == CallParseDuration

SpecDuration == InitDuration /\ [][NextDuration]_vars

\* ================================================================= claims
IsPrefix(s, t) == Len(s) <= Len(t) /\ \A i \in 1..Len(s) : s[i] = t[i]

InSteps(name) == \E i \in 1..Len(steps) : steps[i] = name

\* the normalisation loop of the current invocation has run
Normalized == InSteps("normalize")

\* the stop limit as the user states it
WithinStopLimit(limit, n) == IF limit = 0 THEN n = 0 ELSE n <= 1

\* a raw offer that must yield a record: an itinerary, a segment in the
\* first itinerary, and a stop count within the limit
Qualifies(offer, limit) ==
    /\ Len(offer.itineraries) >= 1
    /\ Len(offer.itineraries[1].segments) >= 1
    /\ WithinStopLimit(limit, Len(offer.itineraries[1].segments) - 1)

QualifyingIndexes == {i \in 1..Len(raw) : Qualifies(raw[i], max_stops)}

\* the raw position of the k-th qualifying offer
KthQualifying(k) ==
    CHOOSE i \in QualifyingIndexes :
        Cardinality({j \in QualifyingIndexes : j < i}) = k - 1

Thm_C9_Stops ==
    Normalized =>
        \A k \in 1..Len(flights) :
            /\ k <= Cardinality(QualifyingIndexes)
            /\ flights[k].stops
                 = Len(raw[KthQualifying(k)].itineraries[1].segments) - 1
            /\ flights[k].stops >= 0

\* a direct outbound leg with a return leg of several segments is returned
\* with stops = 0
Wit_C9 ==
    /\ pc = "returned"
    /\ Len(raw) = 1
    /\ Len(raw[1].itineraries) = 2
    /\ Len(raw[1].itineraries[1].segments) = 1
    /\ Len(raw[1].itineraries[2].segments) > 1
    /\ Len(flights) = 1
    /\ flights[1].stops = 0

\* C5: when the client identifier or the client secret is unset, the token
\* step fails with the configuration error and the invocation makes no
\* token-exchange, offer-search or text-completion call.
Thm_C5_ConfigError ==
    (client_id \in {NoneStr, <<>>} \/ client_secret \in {NoneStr, <<>>}) =>
        /\ tokenCalls = 0 /\ searchCalls = 0 /\ llmCalls = 0
        /\ tokenResp = NoResponse /\ searchResp = NoResponse
        /\ InSteps("token") =>
            /\ pc = "done"
            /\ exc = "AmadeusError"
            /\ msg = "credentials not set"
            /\ outcome = "error"

\* only the secret is unset and the invocation has failed at the token step
Wit_C5 ==
    /\ client_id = <<"k">>
    /\ client_secret = NoneStr
    /\ steps = <<"token">>
    /\ exc = "AmadeusError"

\* the invocation got its token, a decodable 2xx search response and at
\* least one normalized offer
HappyPath ==
    /\ token_returned(tokenResp)
    /\ searchResp.kind \in {"ok", "no_data"}
    /\ flights # <<>>

\* an invocation with both locations entered has finished
InvocationDone == pc = "done" /\ outcome \notin {"none", "input_error"}

\* C6 as stated: every invocation with both locations entered makes exactly
\* one token exchange, one offer search and one text-completion call.
CE_C6_ExactlyThree ==
    InvocationDone => tokenCalls = 1 /\ searchCalls = 1 /\ llmCalls = 1

\* C6 amended: an invocation makes at most one call of each kind; exactly
\* one of each when the token exchange and the search succeed and an offer
\* survives normalisation, and no text-completion call otherwise.
Thm_C6_Calls ==
    /\ tokenCalls <= 1 /\ searchCalls <= 1 /\ llmCalls <= 1
    /\ InvocationDone =>
        /\ HappyPath => tokenCalls = 1 /\ searchCalls = 1 /\ llmCalls = 1
        /\ ~HappyPath => llmCalls = 0

\* a finished invocation that found offers and asked the model once
Wit_C6 ==
    /\ InvocationDone
    /\ HappyPath
    /\ tokenCalls = 1 /\ searchCalls = 1 /\ llmCalls = 1

PipelineOrder == <<"token", "search", "normalize", "prompt", "llm">>

\* C7: the steps of an invocation run in the order token, search,
\* normalisation, prompt, text completion, each at most once; the search is
\* issued only with a token of the same invocation, and after a failure no
\* later step runs.
Thm_C7_Order ==
    /\ IsPrefix(steps, PipelineOrder)
    /\ tokenCalls <= 1 /\ searchCalls <= 1 /\ llmCalls <= 1
    /\ searchCalls >= 1 =>
        /\ tokenCalls = 1
        /\ tokenResp.kind = "ok"
        /\ access_token \notin {NoneStr, <<>>}
    /\ llmCalls >= 1 =>
        /\ searchCalls = 1
        /\ Normalized
        /\ prompt # NoPrompt
        /\ exc = "none"
    /\ exc # "none" =>
        /\ pc = "done"
        /\ steps \in {<<"token">>, <<"token", "search">>}
        /\ flights = <<>>
        /\ prompt = NoPrompt
        /\ llmCalls = 0
    /\ (tokenResp.kind \notin {"none", "ok"}) => searchCalls = 0

\* the token exchange failed on the wire and the invocation stopped there
Wit_C7 ==
    /\ tokenResp.kind = "transport_error"
    /\ pc = "done"
    /\ steps = <<"token">>
    /\ searchCalls = 0

FailedAtBoundary ==
    \/ tokenResp.kind \in {"transport_error", "http_error", "undecodable",
                           "no_access_token"}
    \/ searchResp.kind \in {"transport_error", "http_error", "undecodable"}

\* C8 as stated: every failure at a provider network boundary reaches the
\* caller as AmadeusError and no offer list is returned.
CE_C8_Wrapped ==
    FailedAtBoundary => exc = "AmadeusError" /\ flights = <<>>

\* C10: a successful response with an empty data array is no error: the
\* search returns an empty list and the caller reports "no results"; the
\* error outcome is reached only when the search raised.
Thm_C10_Empty ==
    /\ (searchResp.kind = "ok" /\ searchResp.data = <<>>) =>
        /\ exc = "none"
        /\ flights = <<>>
        /\ outcome \in {"pending", "no_results"}
        /\ pc = "done" => outcome = "no_results"
    /\ outcome = "error" => exc = "AmadeusError"
    /\ outcome = "no_results" => exc = "none" /\ flights = <<>> /\ Normalized
    /\ (pc = "done" /\ Normalized /\ flights = <<>>) => outcome = "no_results"

\* the provider answered with an empty data array and the caller reported
\* "no results"
Wit_C10 ==
    /\ searchResp.kind = "ok"
    /\ searchResp.data = <<>>
    /\ pc = "done"
    /\ outcome = "no_results"
    /\ exc = "none"

\* ---- parse_duration_to_hours
\* r hundredths is h + m/60 rounded to 2 decimals
IsRounded(r, h, m) ==
    LET d == 60 * r - (6000 * h + 100 * m)
    IN  -30 <= d /\ d <= 30

\* C3: parse_duration_to_hours returns None for an empty input and for one
\* that does not begin with "PT"; for a token PT{h}H{m}M, either component
\* optional, it returns h + m/60 rounded to 2 decimals.
Thm_C3_Duration ==
    fpc = "done" =>
        /\ (duration \in {NoneStr, <<>>}
            \/ Len(duration) < 2
            \/ SubSeq(duration, 1, 2) # <<"P", "T">>) => hours_out = NoFloat
        /\ \A h \in 0..MaxH, m \in 0..MaxM, wh \in BOOLEAN, wm \in BOOLEAN :
            duration = Token(h, m, wh, wm) =>
                /\ "hundredths" \in DOMAIN hours_out
                /\ IsRounded(hours_out.hundredths,
                             IF wh THEN h ELSE 0, IF wm THEN m ELSE 0)
        /\ duration = <<"P", "T", "1", "0", "H", "3", "0", "M">>
             => hours_out = Float(1050)
        /\ duration = <<"P", "T", "4", "5", "M">> => hours_out = Float(75)
        /\ duration = <<"P", "T", "3", "H">> => hours_out = Float(300)
        /\ duration = <<"b", "o", "g", "u", "s">> => hours_out = NoFloat

\* PT7H20M has been parsed to 7.33
Wit_C3 ==
    /\ fpc = "done"
    /\ duration = <<"P", "T", "7", "H", "2", "0", "M">>
    /\ hours_out = Float(733)

\* ---- extract_iata
\* 1-based position of the last ch in s, 0 when there is none
LastPos(s, ch) ==
    LET at == {i \in 1..Len(s) : s[i] = ch}
    IN  IF at = {} THEN 0 ELSE CHOOSE i \in at : \A j \in at : j <= i

\* the characters between the last "(" and the last ")"
Between(s) ==
    LET open == LastPos(s, "(")
        close == LastPos(s, ")")
    IN  IF open < close THEN SubSeq(s, open + 1, close - 1) ELSE <<>>

HasBoth(s) == LastPos(s, "(") > 0 /\ LastPos(s, ")") > 0

FirstThree(s) ==
    LET u == Upper(Strip(s)) IN SubSeq(u, 1, Min(3, Len(u)))

\* C4 as stated: the code in parentheses is taken when the text between
\* the last "(" and the last ")" is exactly 3 characters long.
CE_C4_Resolver ==
    fpc = "done" =>
        iata_out = IF HasBoth(code_or_city) /\ Len(Between(code_or_city)) = 3
                   THEN Upper(Between(code_or_city))
                   ELSE FirstThree(code_or_city)

\* C4 amended: the text between the last "(" and the last ")" is first
\* stripped of surrounding whitespace; when what is left is exactly 3
\* characters long the result is that stripped text uppercased, otherwise
\* the first 3 characters of the stripped, uppercased input.  A string of
\* at most 3 characters is always returned.
Thm_C4_Resolver ==
    fpc = "done" =>
        /\ iata_out # NoneStr
        /\ Len(iata_out) <= 3
        /\ iata_out = IF HasBoth(code_or_city)
                         /\ Len(Strip(Between(code_or_city))) = 3
                      THEN Upper(Strip(Between(code_or_city)))
                      ELSE FirstThree(code_or_city)

\* a padded two-letter text in parentheses: 3 characters between the
\* parentheses, 2 after stripping, so the fallback is taken
Wit_C4 ==
    /\ fpc = "done"
    /\ code_or_city = <<"a", "(", " ", "a", "B", ")">>
    /\ iata_out = <<"A", "(", " ">>

====
